---- MODULE Spec2Model ----
(***************************************************************************)
(* Model of streamlit_almibares.py: the sugar-syrup calculator.            *)
(*                                                                         *)
(* The program is a Streamlit script.  Every run of the script reads the   *)
(* widgets, calls the pure functions of the "UTILIDADES" section and       *)
(* binds the script's names (w, brix, m_total_g, ...); the next run starts *)
(* from nothing.  The model has one action per function called on its own  *)
(* (by an arbitrary caller), one action per mode of the script, and two    *)
(* actions that chain the inverse and the forward model as the script      *)
(* does.                                                                   *)
(*                                                                         *)
(* Numbers.  Python floats are modelled as exact rationals n/d in lowest   *)
(* terms (d > 0); float("nan") is the value NaN; a name that has not been  *)
(* bound is Unset.  Rounding of the binary64 format is NOT modelled: every *)
(* equality checked below is an equality of exact arithmetic.              *)
(***************************************************************************)
EXTENDS Integers, Sequences, FiniteSets, TLC

VARIABLES op, env, ret, exc

vars == <<op, env, ret, exc>>

-----------------------------------------------------------------------------
(* Bounds of the enumerated inputs.                                        *)

MaxParts == 3
MaxDen == 3
MaxVol == 3
MaxMass == 3

-----------------------------------------------------------------------------
(* Exact rational arithmetic standing for Python's float operators.        *)

Abs(i) == IF i < 0 THEN -i ELSE i

RECURSIVE GCD(_, _)
GCD(i, j) == IF j = 0 THEN i ELSE GCD(j, i % j)

Norm(n, d) ==
    LET g == GCD(Abs(n), d)
    IN  [tag |-> "num", n |-> n \div g, d |-> d \div g]

Num(n, d) == Norm(n, d)

NaN == [tag |-> "nan", n |-> 0, d |-> 1]

Unset == [tag |-> "unset", n |-> 0, d |-> 1]

Zero == Num(0, 1)

One == Num(1, 1)

Hundred == Num(100, 1)

IsNum(x) == x.tag = "num"

isnan(x) == x.tag = "nan"

Neg(x) == [tag |-> "num", n |-> -(x.n), d |-> x.d]

Add(x, y) ==
    LET g == GCD(x.d, y.d)
        l == (x.d \div g) * y.d
    IN  Norm(x.n * (l \div x.d) + y.n * (l \div y.d), l)

Sub(x, y) == Add(x, Neg(y))

Mul(x, y) ==
    LET g1 == GCD(Abs(x.n), y.d)
        g2 == GCD(Abs(y.n), x.d)
    IN  Norm((x.n \div g1) * (y.n \div g2), (x.d \div g2) * (y.d \div g1))

Inv(y) == IF y.n > 0 THEN [tag |-> "num", n |-> y.d, d |-> y.n]
                     ELSE [tag |-> "num", n |-> -(y.d), d |-> -(y.n)]

\* x / y for y # 0; the callers raise ZeroDivisionError before dividing by 0
Div(x, y) == Mul(x, Inv(y))

Less(x, y) == Sub(x, y).n < 0

-----------------------------------------------------------------------------
(* Constants of the program (20 C).                                        *)

RHO_WATER_20C == Num(9982, 10000)

V_SPECIFIC_SUCROSE == Num(632, 1000)

\* ratio_map: label -> (sugar, water)
ratio_map ==
    [l \in {"Almibar 1:2", "Almibar 1:1 (simple)", "Almibar 2:1"} |->
        CASE l = "Almibar 1:2" -> <<1, 2>>
          [] l = "Almibar 1:1 (simple)" -> <<1, 1>>
          [] l = "Almibar 2:1" -> <<2, 1>>]

-----------------------------------------------------------------------------
(* The pure functions.  Each returns a record: exc is "none" or the name   *)
(* of the Python exception raised; the other fields are the values bound   *)
(* before the return or the raise.                                         *)

\* mutant: the water part, not the sugar part, over the total
mass_fractions_from_ratio_water(a, b) ==
    LET total == a + b
    IN  IF total = 0
        THEN [exc |-> "ZeroDivisionError", val |-> Unset]
        ELSE [exc |-> "none", val |-> Div(Num(b, 1), Num(total, 1))]

\* return a / total, with total = a + b; int / int raises on total = 0
mass_fractions_from_ratio(a, b) ==
    LET total == a + b
    IN  IF total = 0
        THEN [exc |-> "ZeroDivisionError", val |-> Unset]
        ELSE [exc |-> "none", val |-> Div(Num(a, 1), Num(total, 1))]

\* the record masses_for_target_volume returns when its denominator is denom
MassesWith(final_volume_ml, w_sugar, denom, water_share) ==
    IF denom.n = 0
    THEN [exc |-> "ZeroDivisionError", denom |-> denom,
          m_total_g |-> Unset, m_sugar_g |-> Unset, m_water_g |-> Unset]
    ELSE LET m_total_g == Div(final_volume_ml, denom)
         IN  [exc |-> "none", denom |-> denom, m_total_g |-> m_total_g,
              m_sugar_g |-> Mul(w_sugar, m_total_g),
              m_water_g |-> Mul(water_share, m_total_g)]

\* mutant: the water term multiplied by the density instead of divided by it
masses_for_target_volume_times_rho(final_volume_ml, w_sugar, rho_water_g_per_ml, v_sugar_ml_per_g) ==
    MassesWith(final_volume_ml, w_sugar,
               Add(Mul(w_sugar, v_sugar_ml_per_g),
                   Mul(Sub(One, w_sugar), rho_water_g_per_ml)),
               Sub(One, w_sugar))

\* mutant: the water mass takes the sugar's share w of the total
masses_for_target_volume_water_w(final_volume_ml, w_sugar, rho_water_g_per_ml, v_sugar_ml_per_g) ==
    IF rho_water_g_per_ml.n = 0
    THEN MassesWith(final_volume_ml, w_sugar, Zero, w_sugar)
    ELSE MassesWith(final_volume_ml, w_sugar,
                    Add(Mul(w_sugar, v_sugar_ml_per_g),
                        Div(Sub(One, w_sugar), rho_water_g_per_ml)),
                    w_sugar)

\* mutant: the water term subtracted from the sugar term
masses_for_target_volume_minus(final_volume_ml, w_sugar, rho_water_g_per_ml, v_sugar_ml_per_g) ==
    IF rho_water_g_per_ml.n = 0
    THEN MassesWith(final_volume_ml, w_sugar, Zero, Sub(One, w_sugar))
    ELSE MassesWith(final_volume_ml, w_sugar,
                    Sub(Mul(w_sugar, v_sugar_ml_per_g),
                        Div(Sub(One, w_sugar), rho_water_g_per_ml)),
                    Sub(One, w_sugar))

masses_for_target_volume(final_volume_ml, w_sugar, rho_water_g_per_ml, v_sugar_ml_per_g) ==
    IF rho_water_g_per_ml.n = 0
    THEN [exc |-> "ZeroDivisionError", denom |-> Unset,
          m_total_g |-> Unset, m_sugar_g |-> Unset, m_water_g |-> Unset]
    ELSE
      LET denom == Add(Mul(w_sugar, v_sugar_ml_per_g),
                       Div(Sub(One, w_sugar), rho_water_g_per_ml))
      IN  IF denom.n = 0
          THEN [exc |-> "ZeroDivisionError", denom |-> denom,
                m_total_g |-> Unset, m_sugar_g |-> Unset, m_water_g |-> Unset]
          ELSE
            LET m_total_g == Div(final_volume_ml, denom)
                m_sugar_g == Mul(w_sugar, m_total_g)
                m_water_g == Mul(Sub(One, w_sugar), m_total_g)
            IN  [exc |-> "none", denom |-> denom, m_total_g |-> m_total_g,
                 m_sugar_g |-> m_sugar_g, m_water_g |-> m_water_g]

\* mutant: the water mass multiplied by the density instead of divided by it
volume_from_masses_times_rho(m_sugar_g, m_water_g, rho_water_g_per_ml, v_sugar_ml_per_g) ==
    IF rho_water_g_per_ml.n = 0
    THEN [exc |-> "ZeroDivisionError", val |-> Unset]
    ELSE [exc |-> "none",
          val |-> Add(Mul(m_water_g, rho_water_g_per_ml),
                      Mul(m_sugar_g, v_sugar_ml_per_g))]

volume_from_masses(m_sugar_g, m_water_g, rho_water_g_per_ml, v_sugar_ml_per_g) ==
    IF rho_water_g_per_ml.n = 0
    THEN [exc |-> "ZeroDivisionError", val |-> Unset]
    ELSE [exc |-> "none",
          val |-> Add(Div(m_water_g, rho_water_g_per_ml),
                      Mul(m_sugar_g, v_sugar_ml_per_g))]

\* mutant: zero, not nan, for a volume that is not positive
solution_density_g_per_ml_zero(m_total_g, v_final_ml) ==
    IF Less(Zero, v_final_ml) THEN Div(m_total_g, v_final_ml) ELSE Zero

\* m_total_g / v_final_ml if v_final_ml > 0 else float("nan")
solution_density_g_per_ml(m_total_g, v_final_ml) ==
    IF Less(Zero, v_final_ml) THEN Div(m_total_g, v_final_ml) ELSE NaN

\* mutant: zero, not nan, for a total mass that is not positive
mode_b_w_zero(m_sugar_g, m_total_g) ==
    IF Less(Zero, m_total_g) THEN Div(m_sugar_g, m_total_g) ELSE Zero

\* mode B: w = m_sugar_g / m_total_g if m_total_g > 0 else float("nan")
mode_b_w(m_sugar_g, m_total_g) ==
    IF Less(Zero, m_total_g) THEN Div(m_sugar_g, m_total_g) ELSE NaN

\* mode B: brix = 100 * w if not math.isnan(w) else float("nan")
mode_b_brix(w) ==
    IF ~isnan(w) THEN Mul(Hundred, w) ELSE NaN

-----------------------------------------------------------------------------
(* Inputs.                                                                 *)

\* parts of a ratio handed to mass_fractions_from_ratio (tuple[int, int])
Parts == -1 .. MaxParts

\* mass fractions: every p/q of [0,1] with q <= MaxDen, and two values outside
Fractions == {Num(pq[1], pq[2]) :
                 pq \in {x \in (0 .. MaxDen) \X (1 .. MaxDen) : x[1] <= x[2]}}

WSugar == Fractions \cup {Num(-1, 1), Num(2, 1)}

Volumes == {Num(n, d) : n \in -MaxVol .. MaxVol, d \in 1 .. 2}

Masses == {Num(n, d) : n \in -1 .. MaxMass, d \in 1 .. 2}

\* st.number_input(..., min_value=0.0): the script's masses are never negative
UiMasses == {m \in Masses : m.n >= 0}

\* (m_sugar_g, m_water_g) of mode B; the widgets start at 500 g and 500 g
UiMassPairs == (UiMasses \X UiMasses) \cup {<<Num(500, 1), Num(500, 1)>>}

\* (unit, v_value) of mode A; min_value=0.0
UiVolumes == {<<"mL", Num(0, 1)>>, <<"mL", Num(10, 1)>>, <<"mL", Num(1000, 1)>>,
              <<"mL", Num(5, 2)>>, <<"L", Num(0, 1)>>, <<"L", Num(1, 1)>>,
              <<"L", Num(1, 2)>>}

RhoWater == {Num(0, 1), Num(1, 2), Num(1, 1), Num(2, 1), RHO_WATER_20C}

VSugar == {Num(1, 2), Num(1, 1), Num(2, 1), V_SPECIFIC_SUCROSE}

-----------------------------------------------------------------------------
(* State.                                                                  *)

EmptyEnv ==
    [a |-> Unset, b |-> Unset, w |-> Unset, brix |-> Unset,
     v_final_ml |-> Unset, rho_water_g_per_ml |-> Unset,
     v_sugar_ml_per_g |-> Unset, denom |-> Unset,
     m_total_g |-> Unset, m_sugar_g |-> Unset, m_water_g |-> Unset,
     v_check_ml |-> Unset, rho |-> Unset]

Init ==
    /\ op = "idle"
    /\ env = EmptyEnv
    /\ ret = <<>>
    /\ exc = "none"

-----------------------------------------------------------------------------
(* The functions called on their own.                                      *)

CallMassFractionsFromRatio ==
    /\ op = "idle"
    /\ \E a \in Parts, b \in Parts :
         LET r == mass_fractions_from_ratio(a, b)
         IN  /\ op' = "mass_fractions_from_ratio"
             /\ env' = [EmptyEnv EXCEPT !.a = Num(a, 1), !.b = Num(b, 1),
                                        !.w = r.val]
             /\ ret' = IF r.exc = "none" THEN <<r.val>> ELSE <<>>
             /\ exc' = r.exc

CallMassesForTargetVolume ==
    /\ op = "idle"
    /\ \E V \in Volumes, w \in WSugar, rw \in RhoWater, vs \in VSugar :
         LET r == masses_for_target_volume(V, w, rw, vs)
         IN  /\ op' = "masses_for_target_volume"
             /\ env' = [EmptyEnv EXCEPT !.v_final_ml = V, !.w = w,
                                        !.rho_water_g_per_ml = rw,
                                        !.v_sugar_ml_per_g = vs,
                                        !.denom = r.denom,
                                        !.m_total_g = r.m_total_g,
                                        !.m_sugar_g = r.m_sugar_g,
                                        !.m_water_g = r.m_water_g]
             /\ ret' = IF r.exc = "none"
                       THEN <<r.m_total_g, r.m_sugar_g, r.m_water_g>>
                       ELSE <<>>
             /\ exc' = r.exc

CallVolumeFromMasses ==
    /\ op = "idle"
    /\ \E ms \in Masses, mw \in Masses, rw \in RhoWater, vs \in VSugar :
         LET r == volume_from_masses(ms, mw, rw, vs)
         IN  /\ op' = "volume_from_masses"
             /\ env' = [EmptyEnv EXCEPT !.m_sugar_g = ms, !.m_water_g = mw,
                                        !.rho_water_g_per_ml = rw,
                                        !.v_sugar_ml_per_g = vs,
                                        !.v_final_ml = r.val]
             /\ ret' = IF r.exc = "none" THEN <<r.val>> ELSE <<>>
             /\ exc' = r.exc

CallSolutionDensity ==
    /\ op = "idle"
    /\ \E mt \in Masses, V \in Volumes :
         LET r == solution_density_g_per_ml(mt, V)
         IN  /\ op' = "solution_density_g_per_ml"
             /\ env' = [EmptyEnv EXCEPT !.m_total_g = mt, !.v_final_ml = V,
                                        !.rho = r]
             /\ ret' = <<r>>
             /\ exc' = "none"

-----------------------------------------------------------------------------
(* The two modes of the script.                                            *)

\* mode A: a ratio and a wanted final volume give the masses
ModeA ==
    /\ op = "idle"
    /\ \E ratio_label \in DOMAIN ratio_map, uv \in UiVolumes :
         LET ratio == ratio_map[ratio_label]
             f == mass_fractions_from_ratio(ratio[1], ratio[2])
             w == f.val
             brix == Mul(Hundred, w)
             unit == uv[1]
             v_value == uv[2]
             v_final_ml == Mul(v_value, IF unit = "L" THEN Num(1000, 1) ELSE One)
             m == masses_for_target_volume(v_final_ml, w, RHO_WATER_20C,
                                           V_SPECIFIC_SUCROSE)
             vc == volume_from_masses(m.m_sugar_g, m.m_water_g, RHO_WATER_20C,
                                      V_SPECIFIC_SUCROSE)
             v_check_ml == vc.val
             rho == solution_density_g_per_ml(m.m_total_g, v_check_ml)
             e0 == [EmptyEnv EXCEPT !.a = Num(ratio[1], 1), !.b = Num(ratio[2], 1),
                                    !.rho_water_g_per_ml = RHO_WATER_20C,
                                    !.v_sugar_ml_per_g = V_SPECIFIC_SUCROSE]
         IN  /\ op' = "ModeA"
             /\ ret' = <<>>
             /\ IF f.exc # "none"
                THEN /\ exc' = f.exc
                     /\ env' = e0
                ELSE IF m.exc # "none"
                THEN /\ exc' = m.exc
                     /\ env' = [e0 EXCEPT !.w = w, !.brix = brix,
                                          !.v_final_ml = v_final_ml,
                                          !.denom = m.denom]
                ELSE /\ exc' = vc.exc
                     /\ env' = [e0 EXCEPT !.w = w, !.brix = brix,
                                          !.v_final_ml = v_final_ml,
                                          !.denom = m.denom,
                                          !.m_total_g = m.m_total_g,
                                          !.m_sugar_g = m.m_sugar_g,
                                          !.m_water_g = m.m_water_g,
                                          !.v_check_ml = v_check_ml,
                                          !.rho = IF vc.exc = "none" THEN rho
                                                  ELSE Unset]

\* mode B: the masses give the volume, the density, the fraction and the Brix
ModeB ==
    /\ op = "idle"
    /\ \E mm \in UiMassPairs :
         LET m_sugar_g == mm[1]
             m_water_g == mm[2]
             m_total_g == Add(m_sugar_g, m_water_g)
             vf == volume_from_masses(m_sugar_g, m_water_g, RHO_WATER_20C,
                                      V_SPECIFIC_SUCROSE)
             v_final_ml == vf.val
             rho == solution_density_g_per_ml(m_total_g, v_final_ml)
             w == mode_b_w(m_sugar_g, m_total_g)
             brix == mode_b_brix(w)
             e0 == [EmptyEnv EXCEPT !.m_sugar_g = m_sugar_g,
                                    !.m_water_g = m_water_g,
                                    !.m_total_g = m_total_g,
                                    !.rho_water_g_per_ml = RHO_WATER_20C,
                                    !.v_sugar_ml_per_g = V_SPECIFIC_SUCROSE]
         IN  /\ op' = "ModeB"
             /\ ret' = <<>>
             /\ exc' = vf.exc
             /\ env' = IF vf.exc # "none" THEN e0
                       ELSE [e0 EXCEPT !.v_final_ml = v_final_ml, !.rho = rho,
                                       !.w = w, !.brix = brix]

-----------------------------------------------------------------------------
(* The inverse and the forward model chained.                              *)

\* the masses for a volume, then the volume of these masses (mode A's
\* counter-check), with any fraction and any pair of constants
RoundTrip ==
    /\ op = "idle"
    /\ \E V \in Volumes, w \in WSugar, rw \in RhoWater, vs \in VSugar :
         LET m == masses_for_target_volume(V, w, rw, vs)
             vc == volume_from_masses(m.m_sugar_g, m.m_water_g, rw, vs)
             e0 == [EmptyEnv EXCEPT !.v_final_ml = V, !.w = w,
                                    !.rho_water_g_per_ml = rw,
                                    !.v_sugar_ml_per_g = vs,
                                    !.denom = m.denom]
         IN  /\ op' = "RoundTrip"
             /\ IF m.exc # "none"
                THEN /\ exc' = m.exc
                     /\ env' = e0
                     /\ ret' = <<>>
                ELSE /\ exc' = vc.exc
                     /\ env' = [e0 EXCEPT !.m_total_g = m.m_total_g,
                                          !.m_sugar_g = m.m_sugar_g,
                                          !.m_water_g = m.m_water_g,
                                          !.v_check_ml = vc.val]
                     /\ ret' = IF vc.exc = "none" THEN <<vc.val>> ELSE <<>>

\* the volume and the fraction of two masses (as mode B computes them), then
\* the masses for this volume and this fraction
InverseOfForward ==
    /\ op = "idle"
    /\ \E m_sugar_g \in UiMasses, m_water_g \in UiMasses,
          rw \in RhoWater, vs \in VSugar :
         LET m_total_g == Add(m_sugar_g, m_water_g)
             vf == volume_from_masses(m_sugar_g, m_water_g, rw, vs)
             w == mode_b_w(m_sugar_g, m_total_g)
             m == masses_for_target_volume(vf.val, w, rw, vs)
             e0 == [EmptyEnv EXCEPT !.m_sugar_g = m_sugar_g,
                                    !.m_water_g = m_water_g,
                                    !.m_total_g = m_total_g,
                                    !.rho_water_g_per_ml = rw,
                                    !.v_sugar_ml_per_g = vs]
         IN  /\ op' = "InverseOfForward"
             /\ IF vf.exc # "none"
                THEN /\ exc' = vf.exc
                     /\ env' = e0
                     /\ ret' = <<>>
                ELSE IF isnan(w)
                THEN \* arithmetic on nan yields nan and raises nothing
                     /\ exc' = "none"
                     /\ env' = [e0 EXCEPT !.v_final_ml = vf.val, !.w = w,
                                          !.denom = NaN]
                     /\ ret' = <<NaN, NaN, NaN>>
                ELSE /\ exc' = m.exc
                     /\ env' = [e0 EXCEPT !.v_final_ml = vf.val, !.w = w,
                                          !.denom = m.denom]
                     /\ ret' = IF m.exc = "none"
                               THEN <<m.m_total_g, m.m_sugar_g, m.m_water_g>>
                               ELSE <<>>

\* the run of the script ends; the next run binds every name afresh
Finish ==
    /\ op # "idle"
    /\ op' = "idle"
    /\ env' = EmptyEnv
    /\ ret' = <<>>
    /\ exc' = "none"

Next ==
    \/ CallMassFractionsFromRatio
    \/ CallMassesForTargetVolume
    \/ CallVolumeFromMasses
    \/ CallSolutionDensity
    \/ ModeA
    \/ ModeB
    \/ RoundTrip
    \/ InverseOfForward
    \/ Finish

Spec == Init /\ [][Next]_vars

-----------------------------------------------------------------------------
(* Properties.                                                             *)

Pos(x) == IsNum(x) /\ x.n > 0

NonPos(x) == IsNum(x) /\ x.n <= 0

InUnit(x) == IsNum(x) /\ 0 <= x.n /\ x.n <= x.d

DefaultConstants ==
    /\ env.rho_water_g_per_ml = RHO_WATER_20C
    /\ env.v_sugar_ml_per_g = V_SPECIFIC_SUCROSE

PositiveConstants ==
    /\ Pos(env.rho_water_g_per_ml)
    /\ Pos(env.v_sugar_ml_per_g)

\* C1: round trip.  For a final volume > 0, a fraction w of [0,1] and
\* positive constants, the volume of the masses that
\* masses_for_target_volume returns is the final volume asked for.
C1_RoundTrip ==
    (/\ op \in {"RoundTrip", "ModeA"}
     /\ Pos(env.v_final_ml)
     /\ InUnit(env.w)
     /\ PositiveConstants)
    => (/\ exc = "none"
        /\ IsNum(env.v_check_ml)
        /\ env.v_check_ml = env.v_final_ml)

C1_Witness ==
    /\ op = "RoundTrip"
    /\ Pos(env.v_final_ml)
    /\ env.w = Num(1, 3)
    /\ DefaultConstants
    /\ env.v_check_ml = env.v_final_ml

\* C2: masses_for_target_volume called with a final volume <= 0 (the other
\* arguments valid: w of [0,1], positive constants) fails (any exception
\* raised counts as the failure) and returns no masses.
C2_NonPositiveVolumeFails ==
    (/\ op \in {"masses_for_target_volume", "ModeA"}
     /\ NonPos(env.v_final_ml)
     /\ InUnit(env.w)
     /\ PositiveConstants)
    => (/\ exc # "none"
        /\ env.m_total_g = Unset
        /\ env.m_sugar_g = Unset
        /\ env.m_water_g = Unset)

\* C3: mass_fractions_from_ratio fails (any exception raised counts as the
\* failure) and returns no fraction when both parts are zero or a part is
\* negative.
C3_InvalidRatioFails ==
    (/\ op = "mass_fractions_from_ratio"
     /\ \/ env.a.n + env.b.n = 0
        \/ env.a.n < 0
        \/ env.b.n < 0)
    => (/\ exc # "none"
        /\ ret = <<>>)

\* C4: solution_density_g_per_ml never raises; its result is nan for every
\* volume <= 0, whatever the mass, and otherwise the number that multiplied
\* by the volume gives the mass.
C4_Density ==
    op \in {"solution_density_g_per_ml", "ModeB"}
    => (/\ exc = "none"
        /\ IF NonPos(env.v_final_ml)
           THEN isnan(env.rho)
           ELSE /\ IsNum(env.rho)
                /\ Mul(env.rho, env.v_final_ml) = env.m_total_g)

C4_Witness ==
    /\ op = "solution_density_g_per_ml"
    /\ env.m_total_g = Zero
    /\ env.v_final_ml = Zero
    /\ isnan(env.rho)

\* C5: in mode B the fraction w is nan when the total mass is <= 0 and
\* sugar / total otherwise; the Brix is nan exactly when w is nan, and
\* 100 * w otherwise.
C5_ModeBFraction ==
    op = "ModeB"
    => (/\ exc = "none"
        /\ env.m_total_g = Add(env.m_sugar_g, env.m_water_g)
        /\ IF NonPos(env.m_total_g)
           THEN isnan(env.w)
           ELSE /\ IsNum(env.w)
                /\ Mul(env.w, env.m_total_g) = env.m_sugar_g
        /\ isnan(env.brix) <=> isnan(env.w)
        /\ ~isnan(env.w) =>
              /\ IsNum(env.brix)
              /\ Mul(env.brix, env.m_total_g) = Mul(Hundred, env.m_sugar_g))

C5_Witness ==
    /\ op = "ModeB"
    /\ env.m_total_g = Zero
    /\ isnan(env.w)
    /\ isnan(env.brix)

\* C6: every triple masses_for_target_volume returns for a w of [0,1] has
\* total = sugar + water, sugar = w * total, and
\* total * (w * v_sugar + (1 - w) / rho_water) = final volume.
C6_MassesInvariant ==
    (/\ op \in {"masses_for_target_volume", "ModeA", "RoundTrip"}
     /\ IsNum(env.m_total_g)
     /\ InUnit(env.w))
    => (/\ env.m_total_g = Add(env.m_sugar_g, env.m_water_g)
        /\ env.m_sugar_g = Mul(env.w, env.m_total_g)
        /\ Mul(env.m_total_g,
               Add(Mul(env.w, env.v_sugar_ml_per_g),
                   Div(Sub(One, env.w), env.rho_water_g_per_ml)))
             = env.v_final_ml)

C6_Witness ==
    /\ op = "masses_for_target_volume"
    /\ env.w = Num(1, 3)
    /\ DefaultConstants
    /\ Pos(env.m_total_g)
    /\ env.m_total_g = Add(env.m_sugar_g, env.m_water_g)

\* volume of the separate components: sugar / rho_sugar_solid + water /
\* rho_water, with rho_sugar_solid = 1 / 0.63
NaiveVolume == Add(Mul(env.m_sugar_g, Num(63, 100)),
                   Div(env.m_water_g, RHO_WATER_20C))

ContractionCase ==
    /\ op \in {"volume_from_masses", "ModeB"}
    /\ exc = "none"
    /\ DefaultConstants
    /\ Pos(env.m_sugar_g)
    /\ Pos(env.m_water_g)

C8_DenomPositive ==
    (/\ op \in {"masses_for_target_volume", "ModeA", "RoundTrip"}
     /\ InUnit(env.w)
     /\ PositiveConstants)
    => (/\ Pos(env.denom)
        /\ exc = "none")

C8_Witness ==
    /\ op = "masses_for_target_volume"
    /\ env.w = One
    /\ PositiveConstants
    /\ Pos(env.denom)
    /\ exc = "none"

\* C9: the fraction of a ratio is strictly increasing in the sugar part for
\* a fixed water part > 0 and strictly decreasing in the water part for a
\* fixed sugar part > 0 (the varying part >= 0).
C9_RatioMonotone ==
    (/\ op = "mass_fractions_from_ratio"
     /\ env.a.n >= 0
     /\ env.b.n >= 0
     /\ exc = "none")
    => (/\ env.b.n > 0 =>
             \A a2 \in 0 .. MaxParts :
                a2 > env.a.n =>
                  Less(env.w, mass_fractions_from_ratio(a2, env.b.n).val)
        /\ env.a.n > 0 =>
             \A b2 \in 0 .. MaxParts :
                b2 > env.b.n =>
                  Less(mass_fractions_from_ratio(env.a.n, b2).val, env.w))

C9_Witness ==
    /\ op = "mass_fractions_from_ratio"
    /\ env.a = Num(1, 1)
    /\ env.b = Num(1, 1)
    /\ env.w = Num(1, 2)
    /\ Less(env.w, mass_fractions_from_ratio(2, 1).val)

\* C10: for masses >= 0, not both zero, and positive constants, the masses
\* for the volume and the fraction of the mixture are the masses the mixture
\* was made of: (sugar + water, sugar, water).
C10_InverseOfForward ==
    (/\ op = "InverseOfForward"
     /\ Pos(env.m_total_g)
     /\ PositiveConstants)
    => (/\ exc = "none"
        /\ ret = <<Add(env.m_sugar_g, env.m_water_g), env.m_sugar_g,
                   env.m_water_g>>)

C10_Witness ==
    /\ op = "InverseOfForward"
    /\ env.m_sugar_g = Num(3, 1)
    /\ env.m_water_g = Num(1, 2)
    /\ DefaultConstants
    /\ ret = <<Num(7, 2), Num(3, 1), Num(1, 2)>>

====
